---- MODULE Spec2Model ----
(***************************************************************************)
(* The writer base classes of ebookmaker (ebookmaker/writers/__init__.py): *)
(* BaseWriter.write_with_crlf and BaseWriter.validate, and the HTMLish     *)
(* helpers that decorate a document tree (add_class, add_meta, add_prop,   *)
(* add_meta_generator, add_internal_css, add_body_class, add_external_css).*)
(*                                                                         *)
(* A Python bytes object is a sequence of integers 0..255; a Python str is *)
(* a sequence of one-character strings.                                    *)
(***************************************************************************)
EXTENDS Integers, Sequences, FiniteSets, TLC

VARIABLES
    fs,       \* the file at `filename`: whether it exists, and its bytes
    status,   \* how the last validate call ended: returned value or raised exception
    log,      \* the records handed to libgutenberg.Logger, oldest first
    last,     \* the last call made on BaseWriter, with its arguments
    xhtml,    \* the document tree the HTMLish helpers mutate in place, or None
    spider,   \* the resource collector: spider.parsers
    calls,    \* the HTMLish helper calls made on xhtml so far, oldest first
    xhtml0    \* the document as the caller built it, before any helper call

vars == <<fs, status, log, last, xhtml, spider, calls, xhtml0>>

\* the file system before anything was written to `filename`
NoFile == [exists |-> FALSE, bytes |-> <<>>]
\* Python's None where a document is expected
None == [none |-> TRUE, head |-> <<>>, body |-> <<>>]

(***************************************************************************)
(* Bounds of the model.                                                    *)
(***************************************************************************)
MaxLen == 3          \* longest byte string handed to write_with_crlf
MaxStderrLen == 3    \* longest stderr output of the validator process
MaxContentLen == 3   \* longest content string handed to add_meta / add_prop
MaxClassLen == 3     \* longest class attribute an element starts with
MaxCalls == 3        \* most helper calls made on one document
MaxClassCalls == 2   \* most add_class / add_body_class calls on one document
MaxHeads == 2        \* most head elements of a document
MaxBodies == 2       \* most body elements of a document
MaxKids == 2         \* most children a head element starts with

(***************************************************************************)
(* Sequence helpers.                                                       *)
(***************************************************************************)
RECURSIVE SeqsUpTo(_, _)
SeqsUpTo(S, n) ==
    IF n = 0 THEN {<<>>}
    ELSE LET shorter == SeqsUpTo(S, n - 1)
         IN  shorter \cup {Append(s, x) : s \in {t \in shorter : Len(t) = n - 1}, x \in S}

RECURSIVE Concat(_)
Concat(ss) == IF ss = <<>> THEN <<>> ELSE Head(ss) \o Concat(Tail(ss))

Slice(s, i, j) == [k \in 1..(j - i) |-> s[i + k - 1]]   \* Python s[i-1:j-1], 1-based

(***************************************************************************)
(* BaseWriter.write_with_crlf                                              *)
(***************************************************************************)
LF == 10
CR == 13

CRLF == <<CR, LF>>

\* bytes.splitlines(): a line ends at "\n", "\r" or "\r\n"; the line endings
\* are dropped; no empty line follows a final line ending; b"" has no lines.
RECURSIVE splitlines(_)
splitlines(b) ==
    IF b = <<>> THEN <<>>
    ELSE LET breaks == {i \in 1..Len(b) : b[i] \in {LF, CR}}
             eol == IF breaks = {} THEN Len(b) + 1
                    ELSE CHOOSE i \in breaks : \A j \in breaks : i <= j
             next == IF eol > Len(b) THEN eol
                     ELSE IF b[eol] = CR /\ eol + 1 <= Len(b) /\ b[eol + 1] = LF
                          THEN eol + 2
                          ELSE eol + 1
         IN  <<Slice(b, 1, eol)>> \o splitlines(Slice(b, next, Len(b) + 1))

\* sep.join(list)
RECURSIVE join(_, _)
join(sep, list) ==
    IF list = <<>> THEN <<>>
    ELSE IF Len(list) = 1 THEN list[1]
    ELSE list[1] \o sep \o join(sep, Tail(list))

\* bytes.split(b'\n'): cuts at every "\n" only, and keeps a last empty piece
RECURSIVE split_lf(_)
split_lf(b) ==
    LET breaks == {i \in 1..Len(b) : b[i] = LF}
    IN  IF breaks = {} THEN <<b>>
        ELSE LET eol == CHOOSE i \in breaks : \A j \in breaks : i <= j
             IN  <<Slice(b, 1, eol)>> \o split_lf(Slice(b, eol + 1, Len(b) + 1))

\* write_with_crlf without the final b'\r\n'
crlf_bytes_no_final(bytes_) == join(CRLF, splitlines(bytes_))

\* write_with_crlf splitting with split(b'\n') instead of splitlines()
crlf_bytes_split(bytes_) == join(CRLF, split_lf(bytes_)) \o CRLF

\* line 59: bytes_ = b'\r\n'.join(bytes_.splitlines()) + b'\r\n'
crlf_bytes(bytes_) == join(CRLF, splitlines(bytes_)) \o CRLF

ByteAlphabet == {LF, CR, 11, 97}     \* "\n", "\r", "\v" (no line ending for bytes), "a"
ByteStrings == SeqsUpTo(ByteAlphabet, MaxLen)

\* write_with_crlf(filename, bytes_): open(filename, 'wb') truncates, then writes.
write_with_crlf(bytes_) ==
    /\ fs' = [exists |-> TRUE, bytes |-> crlf_bytes(bytes_)]
    /\ last' = [op |-> "write_with_crlf", bytes_ |-> bytes_]
    /\ UNCHANGED <<status, log, xhtml, spider, calls, xhtml0>>

\* a caller writes some content to the file
Write == \E b \in ByteStrings : write_with_crlf(b)

\* a caller reads the file back and writes its bytes again
Rewrite == fs.exists /\ write_with_crlf(fs.bytes)

InitWrite ==
    /\ fs = NoFile
    /\ status = [kind |-> "none", value |-> 0, exc |-> ""]
    /\ log = <<>>
    /\ last = [op |-> "none", bytes_ |-> <<>>]
    /\ xhtml = None
    /\ spider = <<>>
    /\ calls = <<>>
    /\ xhtml0 = None

NextWrite == Write \/ Rewrite

SpecWrite == InitWrite /\ [][NextWrite]_vars

(***************************************************************************)
(* Claims about write_with_crlf, under SpecWrite.                          *)
(***************************************************************************)
IsEol(c) == c \in {LF, CR}

StripEols(b) == SelectSeq(b, LAMBDA c : ~IsEol(c))

\* the content byte by byte: a byte that is no line ending stays, the "\r" of
\* a "\r\n" pair gives nothing (its "\n" ends the line), every other line
\* ending gives "\r\n"; a last line without a line ending, and the empty
\* content, get a "\r\n" of their own.
EachLineCrlf(C) ==
    Concat([i \in 1..Len(C) |->
              IF ~IsEol(C[i]) THEN <<C[i]>>
              ELSE IF C[i] = CR /\ i < Len(C) /\ C[i + 1] = LF THEN <<>>
              ELSE CRLF])
    \o (IF C = <<>> \/ ~IsEol(C[Len(C)]) THEN CRLF ELSE <<>>)

OnlyCrlfBoundaries(out) ==
    \A i \in 1..Len(out) :
        /\ out[i] = CR => i < Len(out) /\ out[i + 1] = LF
        /\ out[i] = LF => i > 1 /\ out[i - 1] = CR

EndsInCrlf(out) ==
    Len(out) >= 2 /\ out[Len(out) - 1] = CR /\ out[Len(out)] = LF

\* C1: after write_with_crlf(path, C) the file holds C's lines (split at LF,
\* CR or CRLF), each followed by CRLF, and a single CRLF when C has no lines:
\* without its line endings the file equals C without its line endings, no
\* lone CR or LF remains, and the file ends in CRLF (empty C gives just CRLF).
C1_WriteNormalisesToCrlf ==
    last.op = "write_with_crlf" =>
        /\ fs.exists
        /\ fs.bytes = EachLineCrlf(last.bytes_)
        /\ StripEols(fs.bytes) = StripEols(last.bytes_)
        /\ OnlyCrlfBoundaries(fs.bytes)
        /\ EndsInCrlf(fs.bytes)
        /\ (last.bytes_ = <<>> => fs.bytes = CRLF)

\* a content with a lone CR, a lone LF and an unterminated last line was written
C1_Witness ==
    /\ last.op = "write_with_crlf"
    /\ last.bytes_ = <<CR, 97, LF>>
    /\ fs.bytes = <<CR, LF, 97, CR, LF>>

\* C10: writing again the bytes a write_with_crlf left in the file leaves the
\* file as it is: no further CRLF and no blank line is added.
C10_RewriteIsIdempotent ==
    [][(fs.exists /\ last'.op = "write_with_crlf" /\ last'.bytes_ = fs.bytes)
          => fs' = fs]_vars

\* the file's own bytes (two lines, CRLF terminated) were written back
C10_Witness ==
    /\ last.op = "write_with_crlf"
    /\ last.bytes_ = <<97, CR, LF, CR, LF>>
    /\ fs.bytes = last.bytes_

(***************************************************************************)
(* BaseWriter.validate                                                     *)
(***************************************************************************)
\* line 49: the class attribute VALIDATOR = None, as a value of the same
\* type as the identifiers subclasses set
ValidatorNone == "<None>"

\* Python truth of self.VALIDATOR (line 69): None and '' are false
Truthy(v) == v \notin {ValidatorNone, ""}

\* how a call ends
Return(v) == [kind |-> "return", value |-> v, exc |-> ""]
Raise(e) == [kind |-> "raise", value |-> 0, exc |-> e]
NotCalled == [kind |-> "none", value |-> 0, exc |-> ""]

\* a record handed to libgutenberg.Logger: the function called (the
\* severity) and its message, either a format with its argument or a text
Logged(level, fmt, arg) == [level |-> level, fmt |-> fmt, arg |-> arg, text |-> <<>>]
LoggedText(level, text) == [level |-> level, fmt |-> "", arg |-> "", text |-> text]

IsCont(b) == b >= 128 /\ b <= 191

\* bytes.decode("utf-8"), errors='strict': the code points, or a failure
\* (UnicodeDecodeError) at the first ill-formed sequence
RECURSIVE utf8_decode(_)
utf8_decode(b) ==
    IF b = <<>> THEN [ok |-> TRUE, text |-> <<>>]
    ELSE
    LET b1 == b[1]
        n == IF b1 < 128 THEN 1
             ELSE IF b1 >= 194 /\ b1 <= 223 THEN 2
             ELSE IF b1 >= 224 /\ b1 <= 239 THEN 3
             ELSE IF b1 >= 240 /\ b1 <= 244 THEN 4
             ELSE 0
        lo2 == IF b1 = 224 THEN 160 ELSE IF b1 = 240 THEN 144 ELSE 128
        hi2 == IF b1 = 237 THEN 159 ELSE IF b1 = 244 THEN 143 ELSE 191
        wellFormed ==
            /\ n >= 1
            /\ Len(b) >= n
            /\ n >= 2 => b[2] >= lo2 /\ b[2] <= hi2
            /\ \A k \in 3..n : IsCont(b[k])
        cp == IF n = 1 THEN b1
              ELSE IF n = 2 THEN (b1 - 192) * 64 + (b[2] - 128)
              ELSE IF n = 3 THEN (b1 - 224) * 4096 + (b[2] - 128) * 64 + (b[3] - 128)
              ELSE (b1 - 240) * 262144 + (b[2] - 128) * 4096
                   + (b[3] - 128) * 64 + (b[4] - 128)
    IN  IF ~wellFormed THEN [ok |-> FALSE, text |-> <<>>]
        ELSE LET rest == utf8_decode(Slice(b, n + 1, Len(b) + 1))
             IN  IF rest.ok THEN [ok |-> TRUE, text |-> <<cp>> \o rest.text]
                 ELSE rest

ValidatorIds == {ValidatorNone, "", "epub_validator"}

\* options.config: whether it has the attribute named by VALIDATOR, and the
\* command line the attribute holds
Configs == {[has |-> FALSE, command |-> ""], [has |-> TRUE, command |-> "epubcheck -q"]}

StderrAlphabet == {LF, 97, 195, 169}    \* "\n", "a", and the two bytes of U+00E9
StderrStrings == SeqsUpTo(StderrAlphabet, MaxStderrLen)

\* what subprocess.run meets: the command cannot be started (OSError), or
\* the process ends with an exit status and its captured stderr
NoProc == [started |-> FALSE, stderr |-> <<>>, returncode |-> 0]
ProcOutcomes ==
    {NoProc} \cup [started : {TRUE}, stderr : StderrStrings, returncode : {0, 1}]

job == [outputdir |-> "out", outputfile |-> "book.epub"]

\* validate(self, job), lines 66-90
validate(VALIDATOR, config, proc) ==
    /\ last' = [op |-> "validate", bytes_ |-> <<>>, VALIDATOR |-> VALIDATOR,
                config |-> config, proc |-> proc]
    /\ IF ~Truthy(VALIDATOR)
       THEN /\ status' = Return(0)
            /\ log' = log
       ELSE LET log1 == Append(log, Logged("debug", "Validating %s ...", job.outputfile))
                ok == Logged("info", "%s validates ok.", job.outputfile)
            IN  IF ~config.has
                THEN /\ log' = Append(log1, ok)
                     /\ status' = Return(0)
                ELSE LET log2 == Append(log1, Logged("info", "validating...", ""))
                     IN  IF ~proc.started
                         THEN /\ log' = log2
                              /\ status' = Raise("OSError")
                         ELSE IF proc.stderr # <<>>
                         THEN LET log3 == Append(log2,
                                     Logged("critical", "validation error reported by %s:\r",
                                            VALIDATOR))
                                  decoded == utf8_decode(proc.stderr)
                              IN  IF decoded.ok
                                  THEN /\ log' = Append(log3, LoggedText("critical", decoded.text))
                                       /\ status' = Return(1)
                                  ELSE /\ log' = log3
                                       /\ status' = Raise("UnicodeDecodeError")
                         ELSE /\ log' = Append(log2, ok)
                              /\ status' = Return(0)
    /\ UNCHANGED <<fs, xhtml, spider, calls, xhtml0>>

\* a writer validates the file it built; the process is run only when the
\* writer names a validator the configuration has
Validate ==
    /\ last.op = "none"
    /\ \E v \in ValidatorIds, config \in Configs :
         \E proc \in IF Truthy(v) /\ config.has THEN ProcOutcomes ELSE {NoProc} :
            validate(v, config, proc)

InitValidate ==
    /\ fs = NoFile
    /\ status = NotCalled
    /\ log = <<>>
    /\ last = [op |-> "none", bytes_ |-> <<>>, VALIDATOR |-> ValidatorNone,
               config |-> [has |-> FALSE, command |-> ""], proc |-> NoProc]
    /\ xhtml = None
    /\ spider = <<>>
    /\ calls = <<>>
    /\ xhtml0 = None

NextValidate == Validate

SpecValidate == InitValidate /\ [][NextValidate]_vars

(***************************************************************************)
(* Claims about validate, under SpecValidate.                              *)
(***************************************************************************)
\* the validator process was started and wrote at least one byte to stderr
WroteToStderr ==
    /\ Truthy(last.VALIDATOR)
    /\ last.config.has
    /\ last.proc.started
    /\ last.proc.stderr # <<>>

\* the call ran to the end of subprocess.run, or never reached it
ProcessCompleted ==
    (Truthy(last.VALIDATOR) /\ last.config.has) => last.proc.started

SuccessLogged ==
    \E i \in 1..Len(log) : log[i] = Logged("info", "%s validates ok.", job.outputfile)

\* C2: validate returns 1 exactly when the writer has a VALIDATOR, the
\* configuration has that attribute and the process wrote at least one byte
\* to stderr, and returns 0 in every other case; the exit status of the
\* process plays no part in the result.
C2_StatusFollowsStderrOnly ==
    (last.op = "validate" /\ ProcessCompleted) =>
        status = IF WroteToStderr THEN Return(1) ELSE Return(0)

\* the severities that report an error: Logger.error and Logger.critical
ErrorSeverities == {"error", "critical"}

\* C8: when the process wrote to stderr, validate logs the validator name and
\* the decoded stderr text at error severity (read here as error or above:
\* the code logs with critical) and returns 1; the success message is logged
\* only when the process ran and its stderr was empty.
C8_ErrorLoggedThenOne ==
    (last.op = "validate" /\ ProcessCompleted) =>
        /\ WroteToStderr =>
             /\ status = Return(1)
             /\ \E i \in 1..(Len(log) - 1), level \in ErrorSeverities :
                  /\ log[i] = Logged(level, "validation error reported by %s:\r",
                                     last.VALIDATOR)
                  /\ log[i + 1] = LoggedText(level, utf8_decode(last.proc.stderr).text)
        /\ SuccessLogged =>
             /\ Truthy(last.VALIDATOR) /\ last.config.has /\ last.proc.started
             /\ last.proc.stderr = <<>>

(***************************************************************************)
(* Python str operations the HTMLish helpers use.                          *)
(***************************************************************************)
\* str.isspace / the regular expression class \s, among the characters used
Whitespace == {" ", "\t", "\n", "\r", "\f"}
IsSpace(c) == c \in Whitespace

\* the regular expression class [\r\n]
CrLfChars == {"\r", "\n"}
IsCrLf(c) == c \in CrLfChars

\* the number of characters from position i on that are in chars (x* greedy)
RECURSIVE RunLen(_, _, _)
RunLen(chars, s, i) ==
    IF i <= Len(s) /\ s[i] \in chars THEN 1 + RunLen(chars, s, i + 1) ELSE 0

\* the number of characters from position i on that are no whitespace
RECURSIVE WordLen(_, _)
WordLen(s, i) ==
    IF i <= Len(s) /\ ~IsSpace(s[i]) THEN 1 + WordLen(s, i + 1) ELSE 0

\* re.match of \s*[\r\n]+\s* at position i: the position after the match, or
\* 0 when there is none.  \s* takes all it can and gives characters back
\* until [\r\n]+ finds one; then [\r\n]+ and the last \s* take all they can.
remove_cr_match(s, i) ==
    LET ws == RunLen(Whitespace, s, i)
        ks == {k \in 0..ws : i + k <= Len(s) /\ IsCrLf(s[i + k])}
    IN  IF ks = {} THEN 0
        ELSE LET k == CHOOSE x \in ks : \A y \in ks : y <= x
                 m == RunLen(CrLfChars, s, i + k)
             IN  i + k + m + RunLen(Whitespace, s, i + k + m)

NumericNewline == <<"&", "#", "1", "0", ";">>

\* re.sub(pattern, '&#10;', content) from position i on: the leftmost match
\* is replaced and the scan goes on behind it
RECURSIVE remove_cr_from(_, _)
remove_cr_from(s, i) ==
    IF i > Len(s) THEN <<>>
    ELSE LET e == remove_cr_match(s, i)
         IN  IF e = 0 THEN <<s[i]>> \o remove_cr_from(s, i + 1)
             ELSE NumericNewline \o remove_cr_from(s, e)

\* re.sub replacing only "\n": a pattern that forgets "\r" and the whitespace
remove_lf_only(content) ==
    Concat([i \in 1..Len(content) |->
              IF content[i] = "\n" THEN NumericNewline ELSE <<content[i]>>])

\* remove_cr(content), lines 37-39
remove_cr(content) == remove_cr_from(content, 1)

\* str.split(): the maximal runs of characters that are no whitespace
RECURSIVE split(_)
split(s) ==
    LET skip == RunLen(Whitespace, s, 1)
        rest == Slice(s, skip + 1, Len(s) + 1)
        n == WordLen(rest, 1)
    IN  IF rest = <<>> THEN <<>>
        ELSE <<Slice(rest, 1, n + 1)>> \o split(Slice(rest, n + 1, Len(rest) + 1))

\* str.strip(chars): drops the leading and trailing characters in chars
strip(s, chars) ==
    LET lead == RunLen(chars, s, 1)
        keep == {j \in (lead + 1)..Len(s) : s[j] \notin chars}
        stop == IF keep = {} THEN lead ELSE CHOOSE j \in keep : \A x \in keep : x <= j
    IN  Slice(s, lead + 1, stop + 1)

\* fmt % arg for a format with one %s
percent_format(fmt, arg) ==
    LET at == {i \in 1..(Len(fmt) - 1) : fmt[i] = "%" /\ fmt[i + 1] = "s"}
    IN  IF at = {} THEN fmt
        ELSE LET i == CHOOSE x \in at : \A y \in at : x <= y
             IN  Slice(fmt, 1, i) \o arg \o Slice(fmt, i + 2, Len(fmt) + 1)

\* ebookmaker.Version (line 32): the generator template and the version
GENERATOR == <<"E", "b", "o", "o", "k", "m", "a", "k", "e", "r", " ", "%", "s">>
VERSION == <<"0", ".", "1">>

(***************************************************************************)
(* The document tree (lxml) as far as the helpers read and write it: the   *)
(* head elements and the body elements gg.xpath finds, in document order.  *)
(* An element has a tag, its attributes in the order they were set (pairs  *)
(* of key and value), a text, a tail and its children.                     *)
(***************************************************************************)
Element(tag, attrib, text, tail) ==
    [tag |-> tag, attrib |-> attrib, text |-> text, tail |-> tail, children |-> <<>>]

Document(heads, bodies) == [none |-> FALSE, head |-> heads, body |-> bodies]

\* elem.get(key, default)
get(elem, key, default) ==
    LET at == {i \in 1..Len(elem.attrib) : elem.attrib[i][1] = key}
    IN  IF at = {} THEN default ELSE elem.attrib[CHOOSE i \in at : TRUE][2]

\* elem.set(key, value): replaces the value in place, or adds the attribute
set(elem, key, value) ==
    LET at == {i \in 1..Len(elem.attrib) : elem.attrib[i][1] = key}
    IN  IF at = {} THEN [elem EXCEPT !.attrib = Append(@, <<key, value>>)]
        ELSE [elem EXCEPT !.attrib[CHOOSE i \in at : TRUE] = <<key, value>>]

\* gg.xpath(xhtml, '//xhtml:head') and '//xhtml:body': the matching elements
xpath_head(doc) == doc.head
xpath_body(doc) == doc.body

\* head.append(node) on the first head element only
append_to_first_head(doc, node) ==
    [doc EXCEPT !.head = [i \in 1..Len(xpath_head(doc)) |->
                            IF i = 1
                            THEN [xpath_head(doc)[i] EXCEPT !.children = Append(@, node)]
                            ELSE xpath_head(doc)[i]]]

\* for head in gg.xpath(xhtml, '//xhtml:head'): head.append(node)
append_to_heads(doc, node) ==
    [doc EXCEPT !.head = [i \in 1..Len(xpath_head(doc)) |->
                            [xpath_head(doc)[i] EXCEPT !.children = Append(@, node)]]]

\* for head in gg.xpath(xhtml, '//xhtml:head'): head.insert(0, node)
insert_first_in_heads(doc, node) ==
    [doc EXCEPT !.head = [i \in 1..Len(xpath_head(doc)) |->
                            [xpath_head(doc)[i] EXCEPT !.children = <<node>> \o @]]]

(***************************************************************************)
(* HTMLishWriter                                                           *)
(***************************************************************************)
\* add_class that replaces the class attribute instead of extending it
add_class_replacing(elem, class_) == set(elem, "class", class_)

\* add_class(elem, class_), lines 111-117
add_class(elem, class_) ==
    LET classes == Append(split(get(elem, "class", <<>>)), class_)
    IN  set(elem, "class", join(<<" ">>, classes))

\* add_meta that makes the head a malformed document lacks
add_meta_making_head(doc, name, content) ==
    LET meta == Element("meta", << <<"name", name>>, <<"content", remove_cr(content)>> >>,
                        <<>>, <<"\n">>)
    IN  IF xpath_head(doc) = <<>>
        THEN [doc EXCEPT !.head = <<[Element("head", <<>>, <<>>, <<>>)
                                       EXCEPT !.children = <<meta>>]>>]
        ELSE append_to_heads(doc, meta)

\* add_meta(xhtml, name, content), lines 120-127
add_meta(doc, name, content) ==
    append_to_heads(doc,
        Element("meta", << <<"name", name>>, <<"content", remove_cr(content)>> >>,
                <<>>, <<"\n">>))

\* add_prop(xhtml, prop, content), lines 129-136
add_prop(doc, prop, content) ==
    append_to_heads(doc,
        Element("meta", << <<"property", prop>>, <<"content", remove_cr(content)>> >>,
                <<>>, <<"\n">>))

\* add_meta_generator(xhtml), lines 139-143
add_meta_generator(doc) ==
    add_meta(doc, <<"g", "e", "n", "e", "r", "a", "t", "o", "r">>,
             percent_format(GENERATOR, VERSION))

TextCss == <<"t", "e", "x", "t", "/", "c", "s", "s">>
Stylesheet == <<"s", "t", "y", "l", "e", "s", "h", "e", "e", "t">>

StyleElement(css_as_string) ==
    Element("style", << <<"type", TextCss>> >>,
            <<"\n">> \o strip(css_as_string, {" ", "\n"}) \o <<"\n">>, <<"\n">>)

\* add_internal_css appending the style instead of inserting it first
add_internal_css_appending(doc, css_as_string) ==
    IF css_as_string # <<>> /\ ~doc.none
    THEN append_to_heads(doc, StyleElement(css_as_string))
    ELSE doc

\* add_internal_css(xhtml, css_as_string), lines 146-155
add_internal_css(doc, css_as_string) ==
    IF css_as_string # <<>> /\ ~doc.none
    THEN insert_first_in_heads(doc, StyleElement(css_as_string))
    ELSE doc

\* add_body_class(xhtml, classname), lines 157-163
add_body_class(doc, classname) ==
    IF classname # <<>> /\ ~doc.none
    THEN [doc EXCEPT !.body = [i \in 1..Len(xpath_body(doc)) |->
                                 add_class(xpath_body(doc)[i], classname)]]
    ELSE doc

\* lines 170-175: the parser ParserFactory.get(attribs) gives for the
\* stylesheet, after parse_string(css_as_string) and make_links_absolute()
CssParser(css_as_string, url) ==
    [orig_mediatype |-> TextCss, url |-> url, orig_url |-> url, css |-> css_as_string]

LinkElement(url) ==
    Element("link", << <<"href", url>>, <<"rel", Stylesheet>>, <<"type", TextCss>> >>,
            <<>>, <<"\n">>)

\* add_external_css doing both halves only when there is css
add_external_css_all_or_nothing(parsers, doc, css_as_string, url) ==
    [parsers |-> IF css_as_string # <<>>
                 THEN Append(parsers, CssParser(css_as_string, url)) ELSE parsers,
     xhtml |-> IF css_as_string # <<>> /\ ~doc.none
               THEN append_to_heads(doc, LinkElement(url)) ELSE doc]

\* add_external_css(self, spider, xhtml, css_as_string, url), lines 166-182:
\* what it leaves in spider.parsers and in the document
add_external_css(parsers, doc, css_as_string, url) ==
    [parsers |-> IF css_as_string # <<>>
                 THEN Append(parsers, CssParser(css_as_string, url)) ELSE parsers,
     xhtml |-> IF ~doc.none THEN append_to_heads(doc, LinkElement(url)) ELSE doc]

(***************************************************************************)
(* The documents a writer hands to the helpers, and the helper calls.      *)
(***************************************************************************)
\* the k-th child a head element has before any helper call
OrigKid(k) ==
    Element("meta", << <<"name", <<"k">>>>, <<"content", [j \in 1..k |-> "x"]>> >>,
            <<>>, <<"\n">>)

HeadElement(kids) ==
    [Element("head", <<>>, <<"\n">>, <<"\n">>) EXCEPT !.children = [k \in 1..kids |-> OrigKid(k)]]

\* a body element whose class attribute is cls, or that has none
BodyElement(hasClass, cls) ==
    Element("body", IF hasClass THEN << <<"class", cls>> >> ELSE <<>>, <<"\n">>, <<"\n">>)

\* the trees with up to MaxHeads head elements of the same number of
\* children and up to MaxBodies body elements of the same class attribute
Documents(classAttrs) ==
    {Document([h \in 1..nh |-> HeadElement(kids)],
              [b \in 1..nb |-> BodyElement(c.has, c.value)]) :
        nh \in 0..MaxHeads, kids \in 0..MaxKids, nb \in 0..MaxBodies, c \in classAttrs}

NoClass == [has |-> FALSE, value |-> <<>>]
ClassAttr(v) == [has |-> TRUE, value |-> v]

Call(op, name, content, css, url, class_) ==
    [op |-> op, name |-> name, content |-> content, css |-> css, url |-> url,
     class_ |-> class_]

foo == <<"f", "o", "o">>
bar == <<"b", "a", "r">>

MetaNames == {<<"x">>}
PropNames == {<<"o", "g", ":", "t">>}
\* a content with a line break
SomeContents == {<<"a", " ", "\r", "\n", "b">>}
\* every content up to MaxContentLen
ContentAlphabet == {"a", "b", " ", "\t", "\n", "\r"}
AllContents == SeqsUpTo(ContentAlphabet, MaxContentLen)
CssTexts == {<<>>, <<"c">>, <<" ", "d", "\n">>}
Urls == {<<"u">>}
ClassNames == {<<>>, foo, bar}

\* the class attributes an element may start with
ClassAlphabet == {"f", "b", " ", "\t"}
AllClassAttrs == {NoClass} \cup {ClassAttr(v) : v \in SeqsUpTo(ClassAlphabet, MaxClassLen)}

Called(call) ==
    /\ calls' = Append(calls, call)
    /\ UNCHANGED <<fs, status, log, last, xhtml0>>

\* add_meta and add_prop read xhtml unguarded: their callers pass a tree
AddMetaOf(contents) ==
    /\ ~xhtml.none
    /\ \E name \in MetaNames, content \in contents :
         /\ xhtml' = add_meta(xhtml, name, content)
         /\ Called(Call("add_meta", name, content, <<>>, <<>>, <<>>))
    /\ UNCHANGED spider

AddPropOf(contents) ==
    /\ ~xhtml.none
    /\ \E prop \in PropNames, content \in contents :
         /\ xhtml' = add_prop(xhtml, prop, content)
         /\ Called(Call("add_prop", prop, content, <<>>, <<>>, <<>>))
    /\ UNCHANGED spider

AddMeta == Len(calls) < MaxCalls /\ AddMetaOf(SomeContents)

AddProp == Len(calls) < MaxCalls /\ AddPropOf(SomeContents)

AddMetaGenerator ==
    /\ Len(calls) < MaxCalls
    /\ ~xhtml.none
    /\ xhtml' = add_meta_generator(xhtml)
    /\ Called(Call("add_meta_generator", <<>>, <<>>, <<>>, <<>>, <<>>))
    /\ UNCHANGED spider

AddInternalCss ==
    /\ Len(calls) < MaxCalls
    /\ \E css \in CssTexts :
         /\ xhtml' = add_internal_css(xhtml, css)
         /\ Called(Call("add_internal_css", <<>>, <<>>, css, <<>>, <<>>))
    /\ UNCHANGED spider

AddBodyClassOf(names) ==
    /\ \E classname \in names :
         /\ xhtml' = add_body_class(xhtml, classname)
         /\ Called(Call("add_body_class", <<>>, <<>>, <<>>, <<>>, classname))
    /\ UNCHANGED spider

AddBodyClass == Len(calls) < MaxCalls /\ AddBodyClassOf({<<>>, foo})

AddExternalCss ==
    /\ Len(calls) < MaxCalls
    /\ \E css \in CssTexts \ {<<" ", "d", "\n">>}, url \in Urls :
         LET r == add_external_css(spider, xhtml, css, url)
         IN  /\ spider' = r.parsers
             /\ xhtml' = r.xhtml
             /\ Called(Call("add_external_css", <<>>, <<>>, css, url, <<>>))

InitDocuments(docs) ==
    /\ fs = NoFile
    /\ status = NotCalled
    /\ log = <<>>
    /\ last = [op |-> "none", bytes_ |-> <<>>]
    /\ xhtml \in docs
    /\ xhtml0 = xhtml
    /\ spider = <<>>
    /\ calls = <<>>

\* a writer decorates the document it built
Init == InitDocuments({None} \cup Documents({NoClass, ClassAttr(<<"x">>)}))

Next ==
    \/ AddMeta
    \/ AddProp
    \/ AddMetaGenerator
    \/ AddInternalCss
    \/ AddBodyClass
    \/ AddExternalCss

Spec == Init /\ [][Next]_vars

\* one add_meta or add_prop call, with any content, on any document
InitMeta == InitDocuments(Documents({NoClass}))

AddMetaOnce == calls = <<>> /\ AddMetaOf(AllContents)

AddPropOnce == calls = <<>> /\ AddPropOf(AllContents)

NextMeta == AddMetaOnce \/ AddPropOnce

SpecMeta == InitMeta /\ [][NextMeta]_vars

\* add_class and add_body_class calls on elements with any class attribute
InitClass == InitDocuments({None} \cup Documents(AllClassAttrs))

\* a writer calls add_class on an element of its own: here the first body
AddClass ==
    /\ Len(calls) < MaxClassCalls
    /\ ~xhtml.none
    /\ xhtml.body # <<>>
    /\ \E class_ \in ClassNames \ {<<>>} :
         /\ xhtml' = [xhtml EXCEPT !.body[1] = add_class(@, class_)]
         /\ Called(Call("add_class", <<>>, <<>>, <<>>, <<>>, class_))
    /\ UNCHANGED spider

AddBodyClassAny == Len(calls) < MaxClassCalls /\ AddBodyClassOf(ClassNames)

NextClass == AddClass \/ AddBodyClassAny

SpecClass == InitClass /\ [][NextClass]_vars

(***************************************************************************)
(* Claims about the HTMLish helpers.                                       *)
(***************************************************************************)
LastCall == calls[Len(calls)]

\* a call was made in this step
Calling(op) == calls' # calls /\ LastCall'.op = op

\* the head elements are the same but for their children
SameHeadsButChildren(old, new) ==
    /\ Len(new.head) = Len(old.head)
    /\ \A h \in 1..Len(old.head) : [new.head[h] EXCEPT !.children = <<>>]
                                     = [old.head[h] EXCEPT !.children = <<>>]

\* every head element got one new last child, and nothing else changed
AppendedToEveryHead(old, new) ==
    /\ new.none = old.none
    /\ new.body = old.body
    /\ SameHeadsButChildren(old, new)
    /\ \A h \in 1..Len(old.head) :
         LET was == old.head[h].children
             now == new.head[h].children
         IN  /\ Len(now) = Len(was) + 1
             /\ SubSeq(now, 1, Len(was)) = was

LastChild(head) == head.children[Len(head.children)]

\* the maximal whitespace run around position i
RunFirst(s, i) == CHOOSE a \in 1..i :
    /\ \A j \in a..i : IsSpace(s[j])
    /\ a = 1 \/ ~IsSpace(s[a - 1])
RunLast(s, i) == CHOOSE b \in i..Len(s) :
    /\ \A j \in i..b : IsSpace(s[j])
    /\ b = Len(s) \/ ~IsSpace(s[b + 1])

\* content with every maximal whitespace run that holds a CR or LF replaced
\* by one &#10;, and everything else as it was
LineBreaksCollapsed(s) ==
    Concat([i \in 1..Len(s) |->
              IF ~IsSpace(s[i]) THEN <<s[i]>>
              ELSE IF \A j \in RunFirst(s, i)..RunLast(s, i) : ~IsCrLf(s[j]) THEN <<s[i]>>
              ELSE IF i = RunFirst(s, i) THEN NumericNewline
              ELSE <<>>])

IsMeta(node, key, name, content) ==
    /\ node.tag = "meta"
    /\ node.text = <<>>
    /\ node.attrib = << <<key, name>>, <<"content", content>> >>
    /\ node.children = <<>>
    /\ node.tail = <<"\n">>

\* C3: add_meta(doc, name, content) appends exactly one meta node as the last
\* child of every head of doc and adds nothing else; the node carries
\* name=name (add_prop: property=prop) and content with every maximal
\* whitespace run holding a CR or LF replaced by one &#10;, so the stored
\* content has no CR or LF and other whitespace runs stay as they were.
C3_MetaAppendedWithNumericNewlines ==
    (calls # <<>> /\ LastCall.op \in {"add_meta", "add_prop"}) =>
        LET key == IF LastCall.op = "add_meta" THEN "name" ELSE "property"
            stored == LineBreaksCollapsed(LastCall.content)
        IN  /\ \A i \in 1..Len(stored) : ~IsCrLf(stored[i])
            /\ AppendedToEveryHead(xhtml0, xhtml)
            /\ \A h \in 1..Len(xhtml.head) :
                 IsMeta(LastChild(xhtml.head[h]), key, LastCall.name, stored)

\* add_meta(doc, "x", "a\nb") on a document with one head: content="a&#10;b"
C3_Witness ==
    /\ calls = <<Call("add_meta", <<"x">>, <<"a", "\n", "b">>, <<>>, <<>>, <<>>)>>
    /\ Len(xhtml.head) = 1
    /\ Len(xhtml.head[1].children) = Len(xhtml0.head[1].children) + 1
    /\ get(LastChild(xhtml.head[1]), "content", <<>>)
         = <<"a", "&", "#", "1", "0", ";", "b">>

\* C4: add_internal_css(doc, css) with non-empty css and a non-null doc
\* inserts in every head exactly one style node (type text/css) at index 0;
\* the children the head had follow it, each one position later, in the same
\* order.  With empty css or a null doc the document stays as it is.
C4_StyleInsertedFirst ==
    [][Calling("add_internal_css") =>
         IF LastCall'.css # <<>> /\ ~xhtml.none
         THEN /\ xhtml'.none = xhtml.none
              /\ xhtml'.body = xhtml.body
              /\ SameHeadsButChildren(xhtml, xhtml')
              /\ \A h \in 1..Len(xhtml.head) :
                   LET was == xhtml.head[h].children
                       now == xhtml'.head[h].children
                   IN  /\ Len(now) = Len(was) + 1
                       /\ now[1].tag = "style"
                       /\ now[1].attrib = << <<"type", TextCss>> >>
                       /\ \A k \in 1..Len(was) : now[k + 1] = was[k]
         ELSE xhtml' = xhtml]_vars

\* a style node was inserted before the two children a head started with
C4_Witness ==
    /\ calls # <<>>
    /\ LastCall.op = "add_internal_css"
    /\ LastCall.css # <<>>
    /\ Len(calls) = 1
    /\ Len(xhtml.head) >= 1
    /\ Len(xhtml.head[1].children) = 3
    /\ xhtml.head[1].children[1].tag = "style"
    /\ xhtml.head[1].children[2] = OrigKid(1)
    /\ xhtml.head[1].children[3] = OrigKid(2)

IsLink(node, url) ==
    /\ node.tag = "link"
    /\ get(node, "rel", <<>>) = Stylesheet
    /\ get(node, "type", <<>>) = TextCss
    /\ get(node, "href", <<>>) = url
    /\ Len(node.attrib) = 3

\* C5: add_external_css(collector, doc, css, url) has two independent
\* effects: the collector's list grows by exactly one entry, bound to url,
\* when css is non-empty and by none when css is empty, whatever doc is; and
\* exactly one link node (rel=stylesheet, type=text/css, href=url) becomes
\* the last child of every head when doc is non-null, whatever css is, and
\* no node is added when doc is null.
C5_ResourceAndLinkIndependent ==
    [][Calling("add_external_css") =>
         /\ IF LastCall'.css # <<>>
            THEN /\ Len(spider') = Len(spider) + 1
                 /\ SubSeq(spider', 1, Len(spider)) = spider
                 /\ spider'[Len(spider')].url = LastCall'.url
            ELSE spider' = spider
         /\ IF ~xhtml.none
            THEN /\ AppendedToEveryHead(xhtml, xhtml')
                 /\ \A h \in 1..Len(xhtml'.head) :
                      IsLink(LastChild(xhtml'.head[h]), LastCall'.url)
            ELSE xhtml' = xhtml]_vars

\* with empty css nothing was registered, yet the link was appended
C5_Witness ==
    /\ calls # <<>>
    /\ LastCall.op = "add_external_css"
    /\ LastCall.css = <<>>
    /\ spider = <<>>
    /\ Len(xhtml.head) = 2
    /\ \A h \in 1..2 : IsLink(LastChild(xhtml.head[h]), <<"u">>)

\* the tokens of s: its maximal runs of characters that are no whitespace
TokenStarts(s) == {i \in 1..Len(s) : ~IsSpace(s[i]) /\ (i = 1 \/ IsSpace(s[i - 1]))}
TokenAt(s, a) ==
    LET b == CHOOSE j \in a..Len(s) :
                /\ \A x \in a..j : ~IsSpace(s[x])
                /\ j = Len(s) \/ IsSpace(s[j + 1])
    IN  SubSeq(s, a, b)
Tokens(s) ==
    [k \in 1..Cardinality(TokenStarts(s)) |->
        TokenAt(s, CHOOSE a \in TokenStarts(s) :
                      Cardinality({x \in TokenStarts(s) : x < a}) = k - 1)]

SingleSpaced(tokens) ==
    Concat([k \in 1..Len(tokens) |-> IF k = 1 THEN tokens[k] ELSE <<" ">> \o tokens[k]])

\* what one add_class(elem, c) leaves in elem
ClassExtended(was, now, c) ==
    /\ get(now, "class", <<>>)
         = SingleSpaced(Append(Tokens(get(was, "class", <<>>)), c))
    /\ \E i \in 1..Len(now.attrib) : now.attrib[i][1] = "class"
    /\ [now EXCEPT !.attrib = <<>>] = [was EXCEPT !.attrib = <<>>]

\* the classes the calls so far added to the first body element
ClassesAdded ==
    LET adding == SelectSeq(calls, LAMBDA c : c.class_ # <<>>)
    IN  [k \in 1..Len(adding) |-> adding[k].class_]

\* C6: add_class(elem, c) sets the class attribute to the whitespace-split
\* tokens of its previous value (none when the attribute is absent), in
\* their order, followed by c, joined by single spaces and not de-duplicated:
\* after add_class calls with c1..cn on an element that had no class
\* attribute the attribute is exactly "c1 c2 ... cn".
C6_ClassAppendedNoDedup ==
    [][(calls' # calls /\ ~xhtml.none /\ xhtml.body # <<>>) =>
         /\ Calling("add_class") =>
              ClassExtended(xhtml.body[1], xhtml'.body[1], LastCall'.class_)
         /\ (Calling("add_body_class") /\ LastCall'.class_ # <<>>) =>
              \A b \in 1..Len(xhtml.body) :
                  ClassExtended(xhtml.body[b], xhtml'.body[b], LastCall'.class_)
         /\ xhtml0.body[1].attrib = <<>> =>
              get(xhtml'.body[1], "class", <<>>) = SingleSpaced(ClassesAdded')]_vars

\* add_class(e, "foo") then add_class(e, "bar") gave class="foo bar"
C6_Witness ==
    /\ Len(calls) = 2
    /\ calls[1].op = "add_class" /\ calls[1].class_ = foo
    /\ calls[2].op = "add_class" /\ calls[2].class_ = bar
    /\ xhtml0.body[1].attrib = <<>>
    /\ xhtml.body[1].attrib
         = << <<"class", <<"f", "o", "o", " ", "b", "a", "r">>>> >>

HeadOps == {"add_meta", "add_prop", "add_meta_generator", "add_internal_css",
            "add_external_css"}

\* C7: on a document without a head element add_meta, add_prop,
\* add_meta_generator, add_internal_css and the link half of add_external_css
\* complete and leave the tree as it is; on a document without a body
\* element so does add_body_class.
C7_NoHeadNoBodyNoChange ==
    [][(calls' # calls /\ ~xhtml.none) =>
         /\ (xhtml.head = <<>> /\ LastCall'.op \in HeadOps) => xhtml' = xhtml
         /\ (xhtml.body = <<>> /\ LastCall'.op = "add_body_class") => xhtml' = xhtml]_vars

\* add_meta was called on a tree that has a body but no head
C7_Witness ==
    /\ calls # <<>>
    /\ LastCall.op = "add_meta"
    /\ ~xhtml.none
    /\ xhtml.head = <<>>
    /\ xhtml.body # <<>>
    /\ xhtml = xhtml0

\* the node a call appends to the heads
AppendedBy(c) ==
    IF c.op = "add_external_css" THEN LinkElement(c.url)
    ELSE Element("meta",
             << <<IF c.op = "add_prop" THEN "property" ELSE "name",
                  IF c.op = "add_meta_generator"
                  THEN <<"g", "e", "n", "e", "r", "a", "t", "o", "r">> ELSE c.name>>,
                <<"content",
                  IF c.op = "add_meta_generator"
                  THEN <<"E", "b", "o", "o", "k", "m", "a", "k", "e", "r", " ">> \o VERSION
                  ELSE LineBreaksCollapsed(c.content)>> >>,
             <<>>, <<"\n">>)

Appending == SelectSeq(calls, LAMBDA c : c.op \in HeadOps \ {"add_internal_css"})
Styling == SelectSeq(calls, LAMBDA c : c.op = "add_internal_css" /\ c.css # <<>>)

\* C9: over any sequence of helper calls on one document no child of a head
\* is removed or reordered: in each head the style nodes of add_internal_css
\* come first, the most recently inserted first, then the original
\* children, then the nodes add_meta, add_prop and add_external_css
\* appended, in call order; the child count is the original count plus the
\* number of calls that took effect, so n add_meta_generator calls leave n
\* generator meta nodes in each head.
C9_HeadChildrenOnlyGrow ==
    ~xhtml.none =>
        /\ SameHeadsButChildren(xhtml0, xhtml)
        /\ \A h \in 1..Len(xhtml.head) :
             LET orig == xhtml0.head[h].children
                 now == xhtml.head[h].children
                 ns == Len(Styling)
             IN  /\ Len(now) = Len(orig) + ns + Len(Appending)
                 /\ \A j \in 1..ns :
                      /\ now[j].tag = "style"
                      /\ Tokens(now[j].text) = Tokens(Styling[ns - j + 1].css)
                 /\ \A k \in 1..Len(orig) : now[ns + k] = orig[k]
                 /\ \A k \in 1..Len(Appending) :
                      now[ns + Len(orig) + k] = AppendedBy(Appending[k])
                 /\ Cardinality({j \in 1..Len(now) :
                        get(now[j], "name", <<>>) = <<"g", "e", "n", "e", "r", "a", "t", "o", "r">>})
                      = Len(SelectSeq(calls, LAMBDA c : c.op = "add_meta_generator"))

\* two styles went in front of, and a meta node behind, the two children a
\* head started with
C9_Witness ==
    /\ Len(calls) = 3
    /\ Len(Styling) = 2
    /\ Styling[1].css # Styling[2].css
    /\ Len(xhtml.head) = 2
    /\ Len(xhtml0.head[2].children) = 2
    /\ Len(xhtml.head[2].children) = 5
    /\ xhtml.head[2].children[5].tag = "meta"

====
